---- MODULE Spec2Model ----
(***************************************************************************)
(* Model of the metric-extraction core of the TGA analyzer                 *)
(* (src/TGA/tga_plot_table.py) and of the tensile analyzer                 *)
(* (src/tensile/plot_table.py).                                            *)
(*                                                                         *)
(* Numbers.  The program computes on numpy float64 values.  A value is     *)
(* modelled as an extended rational [n |-> numerator, d |-> denominator]:  *)
(* d > 0 is a finite number in lowest terms, and d = 0 is one of the three *)
(* special values, n = 1 for +inf, n = -1 for -inf and n = 0 for NaN.      *)
(* The special values follow the IEEE rules numpy applies (x/0, inf - inf, *)
(* comparisons with NaN are false).  Rounding is not modelled, and zero    *)
(* carries no sign.                                                        *)
(*                                                                         *)
(* Arrays are sequences; the source indexes from 0 and the model from 1,   *)
(* so At(a, i) reads a[i] of the source.                                   *)
(***************************************************************************)
EXTENDS Integers, Sequences, FiniteSets, TLC

VARIABLES
    \* _calculate_derivative / _analyze_thermal_events applied to one sample
    temperature,      \* T, the temperature array
    weight_percent,   \* W, the weight-percent array
    deriv_weight,     \* D, the derivative array
    results,          \* the Thermal Event Metrics record
    pc,               \* "input" -> "derived" -> "analyzed"
    \* TGAAnalyzerCorrect and one run of load_tga_folder
    raw_data,         \* self.raw_data: sample name -> curves
    tga_results,      \* self.tga_results: sample name -> events
    files,            \* the CSV files glob found, in its order
    next_file,        \* index into files of the file to process next
    success_count,    \* success_count of load_tga_folder
    folder_pc,        \* "loop" -> "returned"
    folder_result,    \* what load_tga_folder returned
    \* CompleteTensileAnalyzer._calculate_properties applied to one trial
    data,             \* the trial's DataFrame, one record per row
    properties,       \* the properties dict being filled
    ppc,              \* "input" -> "fitted" -> "done", or the exception raised
    \* CompleteTensileAnalyzer: the groups and their statistics
    sample_groups,    \* self.sample_groups: sample name -> list of trial records
    group_order,      \* the keys of sample_groups in insertion order
    statistical_summary,  \* self.statistical_summary: None, or one row per group
    \* CompleteTensileAnalyzer: the trials, calls of _process_files, reports
    raw_trials,       \* self.raw_trials: full name -> trial
    tfiles,           \* files of the running _process_files call
    tindex,           \* i of its loop, the number of files it has been through
    tsuccess,         \* its success_count
    tname,            \* its base_sample_name
    tpc,              \* "ready" -> "loop" -> "returned" -> "loop" ...
    tresult,          \* what the last _process_files call returned
    paths_used,       \* number of file paths handed to _process_files so far
    printed_table,    \* the table the step just taken printed, if it printed one
    exported          \* the workbook the step just taken wrote, if it wrote one

varsFn == <<temperature, weight_percent, deriv_weight, results, pc>>

varsFolder == <<raw_data, tga_results, files, next_file, success_count,
                folder_pc, folder_result>>

varsProps == <<data, properties, ppc>>

varsStats == <<sample_groups, group_order, statistical_summary>>

varsLoad == <<raw_trials, tfiles, tindex, tsuccess, tname, tpc, tresult,
              paths_used, printed_table, exported>>

vars == <<varsFn, varsFolder, varsProps, varsStats, varsLoad>>

(***************************************************************************)
(* float64 values                                                          *)
(***************************************************************************)
Abs(x) == IF x < 0 THEN -x ELSE x

Sign(x) == IF x > 0 THEN 1 ELSE IF x < 0 THEN -1 ELSE 0

RECURSIVE GCD(_, _)
GCD(a, b) == IF b = 0 THEN a ELSE GCD(b, a % b)

\* the finite value n/d, d > 0, in lowest terms
Norm(n, d) ==
    LET g == GCD(Abs(n), d)
    IN  [n |-> n \div g, d |-> d \div g]

FInt(k) == [n |-> k, d |-> 1]

NaN == [n |-> 0, d |-> 0]

Inf(s) == [n |-> s, d |-> 0]

IsNaN(a) == a.d = 0 /\ a.n = 0

IsFinite(a) == a.d > 0

FNeg(a) == [n |-> -a.n, d |-> a.d]

\* (sums and products divide out common factors before they multiply, so that
\* the intermediate integers stay small)
FAdd(a, b) ==
    IF IsNaN(a) \/ IsNaN(b) THEN NaN
    ELSE IF a.d = 0 /\ b.d = 0 THEN (IF a.n = b.n THEN a ELSE NaN)
    ELSE IF a.d = 0 THEN a
    ELSE IF b.d = 0 THEN b
    ELSE LET g == GCD(a.d, b.d)
         IN  Norm(a.n * (b.d \div g) + b.n * (a.d \div g), (a.d \div g) * b.d)

FSub(a, b) == FAdd(a, FNeg(b))

\* the product of two finite values
FiniteMul(a, b) ==
    LET g1 == GCD(Abs(a.n), b.d)
        g2 == GCD(Abs(b.n), a.d)
    IN  IF a.n = 0 \/ b.n = 0 THEN FInt(0)
        ELSE Norm((a.n \div g1) * (b.n \div g2), (a.d \div g2) * (b.d \div g1))

FMul(a, b) ==
    IF IsNaN(a) \/ IsNaN(b) THEN NaN
    ELSE IF a.d = 0 \/ b.d = 0
         THEN (IF a.n = 0 \/ b.n = 0 THEN NaN ELSE Inf(Sign(a.n) * Sign(b.n)))
    ELSE FiniteMul(a, b)

FDiv(a, b) ==
    IF IsNaN(a) \/ IsNaN(b) THEN NaN
    ELSE IF a.d = 0 /\ b.d = 0 THEN NaN
    ELSE IF a.d = 0 THEN Inf(IF b.n < 0 THEN -a.n ELSE a.n)
    ELSE IF b.d = 0 THEN FInt(0)
    ELSE IF b.n = 0 THEN (IF a.n = 0 THEN NaN ELSE Inf(Sign(a.n)))
    ELSE FiniteMul(a, [n |-> b.d * Sign(b.n), d |-> Abs(b.n)])

FEq(a, b) == ~IsNaN(a) /\ ~IsNaN(b) /\ a = b

FLt(a, b) ==
    /\ ~IsNaN(a)
    /\ ~IsNaN(b)
    /\ IF a.d = 0 /\ b.d = 0 THEN a.n < b.n ELSE a.n * b.d < b.n * a.d

FLe(a, b) == FLt(a, b) \/ FEq(a, b)

FGt(a, b) == FLt(b, a)

FGe(a, b) == FLe(b, a)

\* for stating properties: q is the finite value num/den (den # 0), and
\* q < r for finite q, r
IsQuotient(q, num, den) == IsFinite(q) /\ q.n * den = num * q.d

RatLess(q, r) == q.n * r.d < r.n * q.d

(***************************************************************************)
(* numpy arrays                                                            *)
(***************************************************************************)
\* a[i], i >= 0
At(a, i) == a[i + 1]

\* a[-k], k >= 1
FromEnd(a, k) == a[Len(a) - k + 1]

\* np.zeros_like(a)
ZerosLike(a) == [i \in 1..Len(a) |-> FInt(0)]

\* a with a[i] replaced by v
Store(a, i, v) == [a EXCEPT ![i + 1] = v]

\* the indices 0 .. n-1 in increasing order
RECURSIVE Range(_)
Range(n) == IF n <= 0 THEN <<>> ELSE Append(Range(n - 1), n - 1)

(***************************************************************************)
(* Bounds and input values of the TGA functions                            *)
(***************************************************************************)
\* longest array of the enumerated inputs
MaxLen == 3

\* temperatures: below the window, its low end, inside, its high end, above it
TempInputs == {FInt(t) : t \in {100, 200, 400, 600, 700}}

\* weight percents: above 95, at 95, at 50, below 50
WeightInputs == {FInt(w) : w \in {100, 95, 50, 40}}

\* the end-to-end scenario
ScenarioT == <<FInt(100), FInt(200), FInt(300), FInt(400), FInt(500), FInt(600)>>

ScenarioW == <<FInt(100), FInt(96), FInt(70), FInt(40), FInt(20), FInt(15)>>

\* thresholds of _analyze_thermal_events
T5Level == 95

T50Level == 50

DecompLow == 200

DecompHigh == 600

ResidueTemp == 600

(***************************************************************************)
(* TGAAnalyzerCorrect._calculate_derivative                                *)
(***************************************************************************)
\* mutant: the interior difference taken backward, over (i-1, i)
RECURSIVE DerivativeLoopBackward(_, _, _, _)
DerivativeLoopBackward(temp, wp, deriv, i) ==
    IF i >= Len(wp) - 1 THEN deriv
    ELSE LET dt == FSub(At(temp, i), At(temp, i - 1))
             dw == FSub(At(wp, i), At(wp, i - 1))
         IN  DerivativeLoopBackward(temp, wp,
                 IF FGt(dt, FInt(0)) THEN Store(deriv, i, FDiv(dw, dt)) ELSE deriv,
                 i + 1)

\* mutant: the interior guard written dt != 0
RECURSIVE DerivativeLoopNonZero(_, _, _, _)
DerivativeLoopNonZero(temp, wp, deriv, i) ==
    IF i >= Len(wp) - 1 THEN deriv
    ELSE LET dt == FSub(At(temp, i + 1), At(temp, i - 1))
             dw == FSub(At(wp, i + 1), At(wp, i - 1))
         IN  DerivativeLoopNonZero(temp, wp,
                 IF ~FEq(dt, FInt(0)) THEN Store(deriv, i, FDiv(dw, dt)) ELSE deriv,
                 i + 1)

\* for i in range(1, len(weight_percent) - 1): central difference, dt > 0
RECURSIVE DerivativeLoop(_, _, _, _)
DerivativeLoop(temp, wp, deriv, i) ==
    IF i >= Len(wp) - 1 THEN deriv
    ELSE LET dt == FSub(At(temp, i + 1), At(temp, i - 1))
             dw == FSub(At(wp, i + 1), At(wp, i - 1))
         IN  DerivativeLoop(temp, wp,
                 IF FGt(dt, FInt(0)) THEN Store(deriv, i, FDiv(dw, dt)) ELSE deriv,
                 i + 1)

\* the endpoints: one-sided differences, each under its own dt > 0
DerivativeEndpoints(temp, wp, deriv) ==
    IF Len(wp) > 1
    THEN LET dt_start == FSub(At(temp, 1), At(temp, 0))
             d0 == IF FGt(dt_start, FInt(0))
                   THEN Store(deriv, 0, FDiv(FSub(At(wp, 1), At(wp, 0)), dt_start))
                   ELSE deriv
             dt_end == FSub(FromEnd(temp, 1), FromEnd(temp, 2))
         IN  IF FGt(dt_end, FInt(0))
             THEN Store(d0, Len(wp) - 1,
                        FDiv(FSub(FromEnd(wp, 1), FromEnd(wp, 2)), dt_end))
             ELSE d0
    ELSE deriv

calculate_derivative(temp, wp) ==
    DerivativeEndpoints(temp, wp, DerivativeLoop(temp, wp, ZerosLike(wp), 1))

(***************************************************************************)
(* TGAAnalyzerCorrect._analyze_thermal_events                              *)
(***************************************************************************)
\* the boolean arrays a <= v, a < v, a >= v, a > v and m1 & m2
MaskLe(a, v) == [i \in 1..Len(a) |-> FLe(a[i], v)]

MaskLt(a, v) == [i \in 1..Len(a) |-> FLt(a[i], v)]

MaskGe(a, v) == [i \in 1..Len(a) |-> FGe(a[i], v)]

MaskGt(a, v) == [i \in 1..Len(a) |-> FGt(a[i], v)]

MaskAnd(m1, m2) == [i \in 1..Len(m1) |-> m1[i] /\ m2[i]]

\* np.where(mask)[0]: the indices at which mask is true, increasing
Where(mask) == SelectSeq(Range(Len(mask)), LAMBDA i : At(mask, i))

\* np.any(mask)
AnyTrue(mask) == \E i \in 1..Len(mask) : mask[i]

\* a[mask]: the elements of a at which mask is true, in order
Masked(a, mask) ==
    LET idx == Where(mask)
    IN  [k \in 1..Len(idx) |-> At(a, idx[k])]

\* np.argmin of a non-empty array: the first minimum, or the first NaN
RECURSIVE ArgMinFrom(_, _, _)
ArgMinFrom(a, i, best) ==
    IF i >= Len(a) THEN best
    ELSE LET better == /\ ~IsNaN(At(a, best))
                       /\ (IsNaN(At(a, i)) \/ FLt(At(a, i), At(a, best)))
         IN  ArgMinFrom(a, i + 1, IF better THEN i ELSE best)

\* mutant: np.argmax in place of np.argmin
RECURSIVE ArgMaxFrom(_, _, _)
ArgMaxFrom(a, i, best) ==
    IF i >= Len(a) THEN best
    ELSE LET better == /\ ~IsNaN(At(a, best))
                       /\ (IsNaN(At(a, i)) \/ FGt(At(a, i), At(a, best)))
         IN  ArgMaxFrom(a, i + 1, IF better THEN i ELSE best)

ArgMax(a) == ArgMaxFrom(a, 1, 0)

ArgMin(a) == ArgMinFrom(a, 1, 0)

\* ndarray.max() of a non-empty array (NaN propagates)
RECURSIVE ArrMaxFrom(_, _, _)
ArrMaxFrom(a, i, best) ==
    IF i >= Len(a) THEN best
    ELSE LET better == /\ ~IsNaN(best)
                       /\ (IsNaN(At(a, i)) \/ FGt(At(a, i), best))
         IN  ArrMaxFrom(a, i + 1, IF better THEN At(a, i) ELSE best)

ArrMax(a) == ArrMaxFrom(a, 1, At(a, 0))

\* mutant: the threshold test written < level
FirstCrossingStrict(temp, wp, level) ==
    LET indices == Where(MaskLt(wp, FInt(level)))
    IN  IF Len(indices) > 0 THEN At(temp, indices[1]) ELSE NaN

\* temperature at the first index whose weight percent is <= level, else NaN
FirstCrossing(temp, wp, level) ==
    LET indices == Where(MaskLe(wp, FInt(level)))
    IN  IF Len(indices) > 0 THEN At(temp, indices[1]) ELSE NaN

\* mutant: indices_95[-1] in place of indices_95[0]
EventT5Last(temp, wp) ==
    LET indices == Where(MaskLe(wp, FInt(T5Level)))
    IN  IF Len(indices) > 0 THEN At(temp, FromEnd(indices, 1)) ELSE NaN

EventT5(temp, wp) == FirstCrossing(temp, wp, T5Level)

EventT50(temp, wp) == FirstCrossing(temp, wp, T50Level)

\* mutant: the minimum taken over the whole sweep once the window is non-empty
EventTmaxNoMask(temp, deriv) ==
    LET decomp_mask == MaskAnd(MaskGe(temp, FInt(DecompLow)), MaskLe(temp, FInt(DecompHigh)))
    IN  IF AnyTrue(decomp_mask) THEN At(temp, ArgMin(deriv)) ELSE NaN

\* temperature of the minimum derivative within [200, 600], else NaN
EventTmax(temp, deriv) ==
    LET decomp_mask == MaskAnd(MaskGe(temp, FInt(DecompLow)), MaskLe(temp, FInt(DecompHigh)))
        decomp_deriv == Masked(deriv, decomp_mask)
        decomp_temp == Masked(temp, decomp_mask)
    IN  IF AnyTrue(decomp_mask)
        THEN (IF Len(decomp_deriv) > 0
              THEN At(decomp_temp, ArgMin(decomp_deriv))
              ELSE NaN)
        ELSE NaN

\* mutant: the 600 degree test written > 600
EventResidueStrict(temp, wp) ==
    IF Len(temp) = 0
    THEN (IF Len(wp) > 0 THEN FromEnd(wp, 1) ELSE NaN)
    ELSE IF FGt(ArrMax(temp), FInt(ResidueTemp))
         THEN LET idx_600 == Where(MaskGt(temp, FInt(ResidueTemp)))
              IN  IF Len(idx_600) > 0 THEN At(wp, idx_600[1]) ELSE FromEnd(wp, 1)
         ELSE FromEnd(wp, 1)

\* weight percent at the first index with temperature >= 600, else the last one;
\* temperature.max() of an empty array raises, and the handler then yields
\* the last weight percent if there is one and NaN otherwise
EventResidue(temp, wp) ==
    IF Len(temp) = 0
    THEN (IF Len(wp) > 0 THEN FromEnd(wp, 1) ELSE NaN)
    ELSE IF FGe(ArrMax(temp), FInt(ResidueTemp))
         THEN LET idx_600 == Where(MaskGe(temp, FInt(ResidueTemp)))
              IN  IF Len(idx_600) > 0 THEN At(wp, idx_600[1]) ELSE FromEnd(wp, 1)
         ELSE FromEnd(wp, 1)

analyze_thermal_events(temp, wp, deriv) ==
    [T5 |-> EventT5(temp, wp),
     T50 |-> EventT50(temp, wp),
     Tmax |-> EventTmax(temp, deriv),
     Residue_600C |-> EventResidue(temp, wp)]

(***************************************************************************)
(* The TGA functions applied to one sample: the inputs are drawn at the    *)
(* start, then the derivative is computed and the events are extracted     *)
(* (lines 107 and 120 of _load_single_tga_file).                           *)
(***************************************************************************)
FnInputs ==
    /\ \/ \E n \in 0..MaxLen :
              /\ temperature \in [1..n -> TempInputs]
              /\ weight_percent \in [1..n -> WeightInputs]
       \/ /\ temperature = ScenarioT
          /\ weight_percent = ScenarioW
    /\ deriv_weight = <<>>
    /\ results = <<>>
    /\ pc = "input"

\* the functions are not being applied
FnIdle ==
    /\ temperature = <<>>
    /\ weight_percent = <<>>
    /\ deriv_weight = <<>>
    /\ results = <<>>
    /\ pc = "idle"

CalculateDerivative ==
    /\ pc = "input"
    /\ deriv_weight' = calculate_derivative(temperature, weight_percent)
    /\ pc' = "derived"
    /\ UNCHANGED <<temperature, weight_percent, results, varsFolder, varsProps, varsStats, varsLoad>>

AnalyzeThermalEvents ==
    /\ pc = "derived"
    /\ results' = analyze_thermal_events(temperature, weight_percent, deriv_weight)
    /\ pc' = "analyzed"
    /\ UNCHANGED <<temperature, weight_percent, deriv_weight, varsFolder, varsProps, varsStats, varsLoad>>

NextFn == CalculateDerivative \/ AnalyzeThermalEvents

(***************************************************************************)
(* TGAAnalyzerCorrect: loading a folder of CSV files                       *)
(***************************************************************************)
\* most rows of an enumerated file
MaxRows == 2

\* rows (Time, Unsubtracted Weight, Sample Temperature) a file may hold: a
\* plain row, a row of weight 0, a row with a missing weight, a row of
\* negative weight
RowInputs ==
    { <<FInt(0), FInt(4), FInt(100)>>,
      <<FInt(1), FInt(0), FInt(300)>>,
      <<FInt(2), NaN, FInt(600)>>,
      <<FInt(3), FInt(-2), FInt(700)>> }

\* what pd.read_csv finds in a file: numeric rows under the three columns, a
\* file without one of the columns, or a column holding text
FileContents ==
    { [kind |-> "numeric", rows |-> r] :
          r \in UNION { [1..n -> RowInputs] : n \in 0..MaxRows } }
    \cup { [kind |-> "missing_column", rows |-> <<>>],
           [kind |-> "non_numeric", rows |-> <<>>] }

\* file names of the folder, each the "_"-separated parts of its stem
FolderFiles ==
    { <<"9.30", "mek", "5%", "fabric">>,
      <<"mek5%", "5%", "fabric", "run2">>,
      <<"run", "3">> }

\* 'mek' in part.lower(), '%' in part, 'fabric' in ..., 'bulk' in ...
HasMek(part) == part \in {"mek", "mek5%"}

HasPercent(part) == part \in {"5%", "mek5%"}

HasFabric(part) == part \in {"fabric"}

HasBulk(part) == part \in {"bulk"}

\* the loop over the parts of the stem
RECURSIVE SampleParts(_)
SampleParts(parts) ==
    IF parts = <<>> THEN <<>>
    ELSE LET part == Head(parts)
             here == IF HasMek(part) THEN <<"MEK">>
                     ELSE IF HasPercent(part) THEN <<part>>
                     ELSE IF HasFabric(part) THEN <<"Fabric">>
                     ELSE IF HasBulk(part) THEN <<"Bulk">>
                     ELSE <<>>
         IN  here \o SampleParts(Tail(parts))

\* a name is its pieces and the separator that joins them
extract_sample_name(filename) ==
    LET sample_parts == SampleParts(filename)
    IN  IF sample_parts # <<>>
        THEN [sep |-> "-", parts |-> sample_parts]
        ELSE [sep |-> "_", parts |-> filename]

\* a column of the rows
Column(rows, c) == [i \in 1..Len(rows) |-> rows[i][c]]

\* the rows in which no value is NaN
ValidRows(rows) ==
    SelectSeq(rows, LAMBDA r : ~(IsNaN(r[1]) \/ IsNaN(r[2]) \/ IsNaN(r[3])))

\* weight / initial_weight * 100, elementwise
WeightPercent(weight) ==
    LET initial_weight == At(weight, 0)
    IN  [i \in 1..Len(weight) |-> FMul(FDiv(weight[i], initial_weight), FInt(100))]

\* whether the body of the try block runs to its end: the columns are there
\* and numeric, and weight[0] exists
LoadSucceeds(content) ==
    /\ content.kind = "numeric"
    /\ ValidRows(content.rows) # <<>>

\* the curves stored for a sample
LoadedCurves(filepath, content) ==
    LET valid == ValidRows(content.rows)
        time == Column(valid, 1)
        weight == Column(valid, 2)
        temp == Column(valid, 3)
        wp == WeightPercent(weight)
    IN  [time |-> time,
         temperature |-> temp,
         weight_percent |-> wp,
         weight_mg |-> weight,
         deriv_weight |-> calculate_derivative(temp, wp),
         filepath |-> filepath]

\* mutant: the assignment leaves the dict with the one key
DictSetAlone(d, key, value) == [k \in {key} |-> value]

\* d[key] = value of a dict
DictSet(d, key, value) ==
    [k \in DOMAIN d \cup {key} |-> IF k = key THEN value ELSE d[k]]

FolderInit ==
    /\ raw_data = <<>>
    /\ tga_results = <<>>
    /\ \E chosen \in SUBSET FolderFiles :
           \E order \in [1..Cardinality(chosen) -> chosen] :
               /\ \A i, j \in DOMAIN order : i # j => order[i] # order[j]
               /\ files = order
    /\ next_file = 1
    /\ success_count = 0
    /\ folder_pc = "loop"
    /\ folder_result = "none"

FolderIdle ==
    /\ raw_data = <<>>
    /\ tga_results = <<>>
    /\ files = <<>>
    /\ next_file = 1
    /\ success_count = 0
    /\ folder_pc = "idle"
    /\ folder_result = "none"

\* one pass of the loop of load_tga_folder: _extract_sample_name, then
\* _load_single_tga_file, which stores the sample and returns True or
\* catches the exception and returns False
LoadSingleTgaFile ==
    /\ folder_pc = "loop"
    /\ files # <<>>
    /\ next_file <= Len(files)
    /\ \E content \in FileContents :
           LET filepath == files[next_file]
               sample_name == extract_sample_name(filepath)
           IN  IF LoadSucceeds(content)
               THEN \E curves \in {LoadedCurves(filepath, content)} :
                    /\ raw_data' = DictSet(raw_data, sample_name, curves)
                    /\ tga_results' = DictSet(tga_results, sample_name,
                           analyze_thermal_events(curves.temperature,
                               curves.weight_percent, curves.deriv_weight))
                    /\ success_count' = success_count + 1
               ELSE UNCHANGED <<raw_data, tga_results, success_count>>
    /\ next_file' = next_file + 1
    /\ UNCHANGED <<files, folder_pc, folder_result, varsFn, varsProps, varsStats, varsLoad>>

\* no CSV file in the folder: return False
FolderEmpty ==
    /\ folder_pc = "loop"
    /\ files = <<>>
    /\ folder_pc' = "returned"
    /\ folder_result' = FALSE
    /\ UNCHANGED <<raw_data, tga_results, files, next_file, success_count,
                   varsFn, varsProps, varsStats, varsLoad>>

\* after the last file: return success_count > 0
FolderReturn ==
    /\ folder_pc = "loop"
    /\ files # <<>>
    /\ next_file > Len(files)
    /\ folder_pc' = "returned"
    /\ folder_result' = (success_count > 0)
    /\ UNCHANGED <<raw_data, tga_results, files, next_file, success_count,
                   varsFn, varsProps, varsStats, varsLoad>>

NextFolder == LoadSingleTgaFile \/ FolderEmpty \/ FolderReturn

(***************************************************************************)
(* CompleteTensileAnalyzer._calculate_properties                           *)
(***************************************************************************)
\* most rows of an enumerated trial
MaxSamples == 6

\* the default gauge length (mm) and cross-sectional area (mm^2)
DefaultGaugeLength == 30

DefaultArea == 3

\* the strain window of the modulus fit, in thousandths
StrainLowMilli == 1

StrainHighMilli == 5

\* fewest samples a fit takes
MinFitSamples == 5

\* rows (crosshead mm, load N, time s) of a trial; at the default gauge length
\* and area their (strain, stress) are (0, 0), below the window, and
\* (0.001, 1) and (0.005, 3), the two ends of the window
TrialRowInputs ==
    { <<FInt(0), FInt(0), FInt(0)>>,
      <<Norm(3, 100), FInt(3), FInt(1)>>,
      <<Norm(15, 100), FInt(9), FInt(3)>> }

\* pd.DataFrame(data_rows, columns=[...]) with the strain and stress columns
MakeFrame(data_rows, gauge_length, cross_section_area) ==
    [i \in 1..Len(data_rows) |->
        [crosshead |-> data_rows[i][1],
         load |-> data_rows[i][2],
         time |-> data_rows[i][3],
         strain |-> FDiv(data_rows[i][1], gauge_length),
         stress |-> FDiv(data_rows[i][2], cross_section_area)]]

\* the columns data['strain'], data['stress'], data['load'], data['crosshead']
StrainOf(frame) == [i \in 1..Len(frame) |-> frame[i].strain]

StressOf(frame) == [i \in 1..Len(frame) |-> frame[i].stress]

LoadOf(frame) == [i \in 1..Len(frame) |-> frame[i].load]

CrossheadOf(frame) == [i \in 1..Len(frame) |-> frame[i].crosshead]

\* the sum of an array
RECURSIVE FSum(_)
FSum(a) == IF a = <<>> THEN FInt(0) ELSE FAdd(Head(a), FSum(Tail(a)))

\* the mean of a non-empty array
FMean(a) == FDiv(FSum(a), FInt(Len(a)))

\* the mean of the products of the deviations of a and b from their means
Covariance(a, b) ==
    LET am == FMean(a)
        bm == FMean(b)
    IN  FDiv(FSum([i \in 1..Len(a) |-> FMul(FSub(a[i], am), FSub(b[i], bm))]),
             FInt(Len(a)))

\* scipy.stats.linregress(x, y) for len(x) >= 2: it raises ValueError when all
\* x are identical; r is 0 when y does not vary.  r_squared is r ** 2, that is
\* ssxym^2 / (ssxm * ssym), computed as the product of two quotients
Linregress(x, y) ==
    LET ssxm == Covariance(x, x)
        ssxym == Covariance(x, y)
        ssym == Covariance(y, y)
    IN  IF \A i \in 1..Len(x) : x[i] = x[1]
        THEN [raised |-> TRUE, slope |-> NaN, r_squared |-> NaN]
        ELSE [raised |-> FALSE,
              slope |-> FDiv(ssxym, ssxm),
              r_squared |-> IF FEq(ssxm, FInt(0)) \/ FEq(ssym, FInt(0))
                            THEN FInt(0)
                            ELSE FMul(FDiv(ssxym, ssxm), FDiv(ssxym, ssym))]

\* mutant: the window bounds taken as open
InStrainRangeOpen(strain) ==
    /\ FGt(strain, Norm(StrainLowMilli, 1000))
    /\ FLt(strain, Norm(StrainHighMilli, 1000))

\* strain_range[0] <= strain <= strain_range[1]
InStrainRange(strain) ==
    /\ FGe(strain, Norm(StrainLowMilli, 1000))
    /\ FLe(strain, Norm(StrainHighMilli, 1000))

\* data[mask]
LinearData(frame) == SelectSeq(frame, LAMBDA row : InStrainRange(row.strain))

\* mutant: the fallback fit also taken over the window
FitDataWindowOnly(frame) ==
    IF Len(frame) >= MinFitSamples THEN LinearData(frame) ELSE <<>>

\* the rows the modulus is fitted over; none when the trial is too short
FitData(frame) ==
    LET linear_data == LinearData(frame)
    IN  IF Len(linear_data) >= MinFitSamples THEN linear_data
        ELSE IF Len(frame) >= MinFitSamples THEN frame
        ELSE <<>>

\* the Young's modulus part of _calculate_properties
ModulusFit(frame) ==
    LET fit_data == FitData(frame)
        fit == Linregress(StrainOf(fit_data), StressOf(fit_data))
    IN  IF fit_data = <<>>
        THEN [raised |-> FALSE, Youngs_Modulus_MPa |-> FInt(0), R_squared |-> FInt(0)]
        ELSE [raised |-> fit.raised,
              Youngs_Modulus_MPa |-> fit.slope,
              R_squared |-> fit.r_squared]

\* Series.max(): the largest value that is not NaN, NaN when there is none
RECURSIVE SeriesMax(_)
SeriesMax(a) ==
    IF a = <<>> THEN NaN
    ELSE LET rest == SeriesMax(Tail(a))
         IN  IF IsNaN(Head(a)) THEN rest
             ELSE IF IsNaN(rest) \/ FGt(Head(a), rest) THEN Head(a)
             ELSE rest

\* mutant: the left rectangle rule, sum of diff(x) * y[:-1]
TrapezoidLeftRule(y, x) ==
    FSum([i \in 1..(Len(x) - 1) |-> FMul(FSub(x[i + 1], x[i]), y[i])])

\* np.trapezoid(y, x): sum of diff(x) * (y[1:] + y[:-1]) / 2
Trapezoid(y, x) ==
    FSum([i \in 1..(Len(x) - 1) |->
             FDiv(FMul(FSub(x[i + 1], x[i]), FAdd(y[i + 1], y[i])), FInt(2))])

\* mutant: the strain at break taken as the largest strain
ScalarPropertiesMaxStrain(frame) ==
    [UTS_MPa |-> SeriesMax(StressOf(frame)),
     Strain_at_Break_percent |-> FMul(SeriesMax(StrainOf(frame)), FInt(100)),
     Max_Load_N |-> SeriesMax(LoadOf(frame)),
     Max_Displacement_mm |-> SeriesMax(CrossheadOf(frame)),
     Toughness_MJ_per_m3 |-> Trapezoid(StressOf(frame), StrainOf(frame))]

\* the properties after the fit
ScalarProperties(frame) ==
    [UTS_MPa |-> SeriesMax(StressOf(frame)),
     Strain_at_Break_percent |-> FMul(FromEnd(StrainOf(frame), 1), FInt(100)),
     Max_Load_N |-> SeriesMax(LoadOf(frame)),
     Max_Displacement_mm |-> SeriesMax(CrossheadOf(frame)),
     Toughness_MJ_per_m3 |-> Trapezoid(StressOf(frame), StrainOf(frame))]

PropsInputs ==
    /\ \E n \in 0..MaxSamples :
           \E data_rows \in [1..n -> TrialRowInputs] :
               data = MakeFrame(data_rows, FInt(DefaultGaugeLength), FInt(DefaultArea))
    /\ properties = <<>>
    /\ ppc = "input"

PropsIdle ==
    /\ data = <<>>
    /\ properties = <<>>
    /\ ppc = "idle"

\* lines 221-239: the modulus and R^2 are put into properties, unless
\* linregress raises
FitModulus ==
    /\ ppc = "input"
    /\ LET fit == ModulusFit(data)
       IN  IF fit.raised
           THEN /\ ppc' = "ValueError"
                /\ UNCHANGED properties
           ELSE /\ ppc' = "fitted"
                /\ properties' = [Youngs_Modulus_MPa |-> fit.Youngs_Modulus_MPa,
                                  R_squared |-> fit.R_squared]
    /\ UNCHANGED <<data, varsFn, varsFolder, varsStats, varsLoad>>

\* lines 241-253: the other properties; data['strain'].iloc[-1] of an empty
\* trial raises IndexError
OtherProperties ==
    /\ ppc = "fitted"
    /\ IF Len(data) = 0
       THEN /\ ppc' = "IndexError"
            /\ UNCHANGED properties
       ELSE /\ ppc' = "done"
            /\ LET scalars == ScalarProperties(data)
               IN  properties' =
                       [Youngs_Modulus_MPa |-> properties.Youngs_Modulus_MPa,
                        R_squared |-> properties.R_squared,
                        UTS_MPa |-> scalars.UTS_MPa,
                        Strain_at_Break_percent |-> scalars.Strain_at_Break_percent,
                        Max_Load_N |-> scalars.Max_Load_N,
                        Max_Displacement_mm |-> scalars.Max_Displacement_mm,
                        Toughness_MJ_per_m3 |-> scalars.Toughness_MJ_per_m3]
    /\ UNCHANGED <<data, varsFn, varsFolder, varsStats, varsLoad>>

NextProps == FitModulus \/ OtherProperties

(***************************************************************************)
(* CompleteTensileAnalyzer.calculate_statistics                            *)
(*                                                                         *)
(* A standard deviation is a square root, and so is a coefficient of       *)
(* variation: both are modelled as signed roots [s |-> sign, sq |-> q],    *)
(* the number s * sqrt(q) for a float64 value q >= 0.                      *)
(***************************************************************************)
\* most trials of an enumerated group
MaxTrials == 3

\* sample names of the enumerated groups
SampleNames == {"A", "B"}

\* the properties of a trial, as _calculate_properties returns them
PropertyInputs ==
    { [Youngs_Modulus_MPa |-> FInt(2), R_squared |-> FInt(1), UTS_MPa |-> FInt(3),
       Strain_at_Break_percent |-> FInt(0), Max_Load_N |-> FInt(9),
       Max_Displacement_mm |-> FInt(1), Toughness_MJ_per_m3 |-> FInt(-2)],
      [Youngs_Modulus_MPa |-> FInt(4), R_squared |-> FInt(1), UTS_MPa |-> FInt(3),
       Strain_at_Break_percent |-> FInt(0), Max_Load_N |-> FInt(9),
       Max_Displacement_mm |-> FInt(1), Toughness_MJ_per_m3 |-> FInt(2)],
      [Youngs_Modulus_MPa |-> FInt(0), R_squared |-> FInt(0), UTS_MPa |-> FInt(5),
       Strain_at_Break_percent |-> FInt(4), Max_Load_N |-> FInt(15),
       Max_Displacement_mm |-> FInt(2), Toughness_MJ_per_m3 |-> FInt(0)] }

\* the record appended to a group: trial_name is i for "Run i", full_name the
\* pair for f"{sample_name}_{trial_name}"
TrialRecord(sample_name, i, props) ==
    [trial_name |-> i,
     full_name |-> <<sample_name, i>>,
     Youngs_Modulus_MPa |-> props.Youngs_Modulus_MPa,
     R_squared |-> props.R_squared,
     UTS_MPa |-> props.UTS_MPa,
     Strain_at_Break_percent |-> props.Strain_at_Break_percent,
     Max_Load_N |-> props.Max_Load_N,
     Max_Displacement_mm |-> props.Max_Displacement_mm,
     Toughness_MJ_per_m3 |-> props.Toughness_MJ_per_m3]

\* the float 0.0 where a root stands
RootZero == [s |-> 0, sq |-> FInt(0)]

\* np.sqrt(q), q >= 0
Root(q) == [s |-> Sign(q.n), sq |-> q]

\* r / m and r * m for a root r and a float m
RootDiv(r, m) == [s |-> r.s * Sign(m.n), sq |-> FDiv(r.sq, FMul(m, m))]

RootMul(r, m) == [s |-> r.s * Sign(m.n), sq |-> FMul(r.sq, FMul(m, m))]

\* np.mean(values)
NpMean(values) == FDiv(FSum(values), FInt(Len(values)))

\* np.std(values, ddof=1): the root of the squared deviations over n - 1
NpStd(values) ==
    LET mean == NpMean(values)
        squares == [i \in 1..Len(values) |->
                       FMul(FSub(values[i], mean), FSub(values[i], mean))]
    IN  Root(FDiv(FSum(squares), FInt(Len(values) - 1)))

\* mutant: the mean is not tested before the division
PropertyStatsNoMeanGuard(values) ==
    [mean |-> NpMean(values),
     std |-> IF Len(values) > 1 THEN NpStd(values) ELSE RootZero,
     cv |-> IF Len(values) > 1
            THEN RootMul(RootDiv(NpStd(values), NpMean(values)), FInt(100))
            ELSE RootZero]

\* the three statistics of one property
PropertyStats(values) ==
    [mean |-> NpMean(values),
     std |-> IF Len(values) > 1 THEN NpStd(values) ELSE RootZero,
     cv |-> IF Len(values) > 1 /\ ~FEq(NpMean(values), FInt(0))
            THEN RootMul(RootDiv(NpStd(values), NpMean(values)), FInt(100))
            ELSE RootZero]

\* [trial[prop] for trial in trials], for each tracked property
ModulusValues(trials) == [i \in 1..Len(trials) |-> trials[i].Youngs_Modulus_MPa]

UTSValues(trials) == [i \in 1..Len(trials) |-> trials[i].UTS_MPa]

BreakValues(trials) == [i \in 1..Len(trials) |-> trials[i].Strain_at_Break_percent]

ToughnessValues(trials) == [i \in 1..Len(trials) |-> trials[i].Toughness_MJ_per_m3]

\* sample_stats of one group
SampleStats(sample_name, trials) ==
    LET e == PropertyStats(ModulusValues(trials))
        u == PropertyStats(UTSValues(trials))
        b == PropertyStats(BreakValues(trials))
        t == PropertyStats(ToughnessValues(trials))
    IN  [Sample |-> sample_name,
         n_trials |-> Len(trials),
         Youngs_Modulus_MPa_mean |-> e.mean,
         Youngs_Modulus_MPa_std |-> e.std,
         Youngs_Modulus_MPa_cv |-> e.cv,
         UTS_MPa_mean |-> u.mean,
         UTS_MPa_std |-> u.std,
         UTS_MPa_cv |-> u.cv,
         Strain_at_Break_percent_mean |-> b.mean,
         Strain_at_Break_percent_std |-> b.std,
         Strain_at_Break_percent_cv |-> b.cv,
         Toughness_MJ_per_m3_mean |-> t.mean,
         Toughness_MJ_per_m3_std |-> t.std,
         Toughness_MJ_per_m3_cv |-> t.cv]

\* pd.DataFrame(summary_data): one row per group, in the order of the dict
SummaryRows(groups, order) ==
    [k \in 1..Len(order) |-> SampleStats(order[k], groups[order[k]])]

StatsInputs ==
    /\ \E names \in SUBSET SampleNames :
           /\ \E order \in [1..Cardinality(names) -> names] :
                  /\ \A i, j \in DOMAIN order : i # j => order[i] # order[j]
                  /\ group_order = order
           /\ \E lengths \in [names -> 1..MaxTrials] :
                  \E chosen \in [names -> [1..MaxTrials -> PropertyInputs]] :
                      sample_groups =
                          [name \in names |->
                              [i \in 1..lengths[name] |->
                                  TrialRecord(name, i, chosen[name][i])]]
    /\ statistical_summary = [computed |-> FALSE, rows |-> <<>>]

StatsIdle ==
    /\ sample_groups = <<>>
    /\ group_order = <<>>
    /\ statistical_summary = [computed |-> FALSE, rows |-> <<>>]

\* no table printed; a sheet that is not in the workbook, and no workbook
NoTable == [printed |-> FALSE, rows |-> <<>>]

NoSheet == [present |-> FALSE, rows |-> <<>>]

NoWorkbook ==
    [written |-> FALSE, raised |-> FALSE, Publication_Table |-> NoSheet,
     Statistical_Summary |-> NoSheet, Individual_Trials |-> NoSheet]

\* calculate_statistics: the summary is built anew from sample_groups
CalculateStatistics ==
    /\ tpc \in {"ready", "returned"}
    /\ statistical_summary' =
           [computed |-> TRUE, rows |-> SummaryRows(sample_groups, group_order)]
    /\ printed_table' = NoTable
    /\ exported' = NoWorkbook
    /\ UNCHANGED <<sample_groups, group_order, raw_trials, tfiles, tindex, tsuccess,
                   tname, tpc, tresult, paths_used, varsFn, varsFolder, varsProps>>

NextStats == CalculateStatistics

(***************************************************************************)
(* CompleteTensileAnalyzer: _process_files and _load_single_file           *)
(***************************************************************************)
\* no tensile file is being loaded
LoadIdle ==
    /\ raw_trials = <<>>
    /\ tfiles = <<>>
    /\ tindex = 0
    /\ tsuccess = 0
    /\ tname = "none"
    /\ tpc = "idle"
    /\ tresult = "none"
    /\ paths_used = 0
    /\ printed_table = NoTable
    /\ exported = NoWorkbook

\* no call of _process_files is running, and none has run
LoadReady ==
    /\ raw_trials = <<>>
    /\ tfiles = <<>>
    /\ tindex = 0
    /\ tsuccess = 0
    /\ tname = "none"
    /\ tpc = "ready"
    /\ tresult = "none"
    /\ paths_used = 0
    /\ printed_table = NoTable
    /\ exported = NoWorkbook

\* most file paths handed to _process_files in a run
MaxLoads == 2

\* fewest data rows of a file that is loaded
MinDataRows == 10

\* data_rows of a file of n rows: row k (from 0) has crosshead 3*step*k/100 mm,
\* strain step*k/1000 at the default gauge length, and load 3*k N, stress k
\* MPa at the default area
RampRows(n, step) ==
    [k \in 1..n |->
        <<Norm(3 * step * (k - 1), 100),
          FInt(3 * (k - 1)),
          FInt(k - 1)>>]

\* what a file holds: one that cannot be read, one row short of enough, five
\* rows in the strain window, two rows in the window, all strains equal
TensileFiles ==
    { [kind |-> "unreadable", rows |-> <<>>],
      [kind |-> "text", rows |-> RampRows(MinDataRows - 1, 1)],
      [kind |-> "text", rows |-> RampRows(MinDataRows, 1)],
      [kind |-> "text", rows |-> RampRows(MinDataRows, 2)],
      [kind |-> "text", rows |-> RampRows(MinDataRows, 0)] }

\* _calculate_properties(df): the exception of FitModulus or OtherProperties,
\* or the properties dict
calculate_properties(frame) ==
    LET fit == ModulusFit(frame)
        scalars == ScalarProperties(frame)
    IN  IF fit.raised \/ Len(frame) = 0
        THEN [raised |-> TRUE, properties |-> <<>>]
        ELSE [raised |-> FALSE,
              properties |->
                  [Youngs_Modulus_MPa |-> fit.Youngs_Modulus_MPa,
                   R_squared |-> fit.R_squared,
                   UTS_MPa |-> scalars.UTS_MPa,
                   Strain_at_Break_percent |-> scalars.Strain_at_Break_percent,
                   Max_Load_N |-> scalars.Max_Load_N,
                   Max_Displacement_mm |-> scalars.Max_Displacement_mm,
                   Toughness_MJ_per_m3 |-> scalars.Toughness_MJ_per_m3]]

\* mutant: a file is taken when it has rows enough for a fit
EnoughRowsForFit(data_rows) == Len(data_rows) >= MinFitSamples

\* not (len(data_rows) < 10)
EnoughRows(data_rows) == Len(data_rows) >= MinDataRows

\* whether _load_single_file gets as far as its DataFrame: the file is read
\* and has rows enough
FileParses(content) ==
    /\ content.kind = "text"
    /\ EnoughRows(content.rows)

\* mutant: the trial replaces the list of its sample
GroupReplace(groups, sample_name, record) ==
    DictSet(groups, sample_name, <<record>>)

\* self.sample_groups[sample_name].append(record), the list made if absent
GroupAppend(groups, sample_name, record) ==
    DictSet(groups, sample_name,
        Append(IF sample_name \in DOMAIN groups THEN groups[sample_name] ELSE <<>>,
               record))

\* the analyzer as __init__ leaves it
TensileInit ==
    /\ sample_groups = <<>>
    /\ group_order = <<>>
    /\ statistical_summary = [computed |-> FALSE, rows |-> <<>>]
    /\ LoadReady

\* _process_files(files) up to its loop: files not empty, the base sample name
\* is read
ProcessFiles ==
    /\ tpc \in {"ready", "returned"}
    /\ \E n \in 1..(MaxLoads - paths_used) :
           /\ tfiles' = [j \in 1..n |-> paths_used + j]
           /\ paths_used' = paths_used + n
    /\ \E base_sample_name \in SampleNames : tname' = base_sample_name
    /\ tindex' = 0
    /\ tsuccess' = 0
    /\ tpc' = "loop"
    /\ printed_table' = NoTable
    /\ exported' = NoWorkbook
    /\ UNCHANGED <<raw_trials, tresult, varsFn, varsFolder, varsProps, varsStats>>

\* _process_files([]): return False
ProcessFilesEmpty ==
    /\ tpc \in {"ready", "returned"}
    /\ tfiles' = <<>>
    /\ tindex' = 0
    /\ tsuccess' = 0
    /\ tresult' = FALSE
    /\ tpc' = "returned"
    /\ printed_table' = NoTable
    /\ exported' = NoWorkbook
    /\ UNCHANGED <<raw_trials, tname, paths_used,
                   varsFn, varsFolder, varsProps, varsStats>>

\* one pass of the loop of _process_files: the parameters are left at their
\* defaults, then _load_single_file stores the trial and returns True, or
\* returns False
LoadSingleFile ==
    /\ tpc = "loop"
    /\ tindex < Len(tfiles)
    /\ \E content \in TensileFiles :
           LET filepath == tfiles[tindex + 1]
               trial_name == tindex + 1
               gauge_length == FInt(DefaultGaugeLength)
               cross_section_area == FInt(DefaultArea)
               df == MakeFrame(content.rows, gauge_length, cross_section_area)
               full_name == <<tname, trial_name>>
           IN  \E outcome \in {IF FileParses(content)
                                THEN calculate_properties(df)
                                ELSE [raised |-> TRUE, properties |-> <<>>]} :
                   IF ~outcome.raised
                   THEN /\ raw_trials' = DictSet(raw_trials, full_name,
                               [data |-> df,
                                properties |-> outcome.properties,
                                sample_name |-> tname,
                                trial_name |-> trial_name,
                                gauge_length |-> gauge_length,
                                cross_section_area |-> cross_section_area,
                                filepath |-> filepath])
                        /\ sample_groups' = GroupAppend(sample_groups, tname,
                               TrialRecord(tname, trial_name, outcome.properties))
                        /\ group_order' = IF tname \in DOMAIN sample_groups
                                          THEN group_order
                                          ELSE Append(group_order, tname)
                        /\ tsuccess' = tsuccess + 1
                   ELSE UNCHANGED <<raw_trials, sample_groups, group_order, tsuccess>>
    /\ tindex' = tindex + 1
    /\ printed_table' = NoTable
    /\ exported' = NoWorkbook
    /\ UNCHANGED <<statistical_summary, tfiles, tname, tpc, tresult, paths_used,
                   varsFn, varsFolder, varsProps>>

\* mutant: the files gone through are counted, not the files loaded
ProcessFilesReturnCountsAll ==
    /\ tpc = "loop"
    /\ tindex = Len(tfiles)
    /\ tresult' = (tindex > 0)
    /\ tpc' = "returned"
    /\ printed_table' = NoTable
    /\ exported' = NoWorkbook
    /\ UNCHANGED <<raw_trials, tfiles, tindex, tsuccess, tname, paths_used,
                   varsFn, varsFolder, varsProps, varsStats>>

\* after the last file: return success_count > 0
ProcessFilesReturn ==
    /\ tpc = "loop"
    /\ tindex = Len(tfiles)
    /\ tresult' = (tsuccess > 0)
    /\ tpc' = "returned"
    /\ printed_table' = NoTable
    /\ exported' = NoWorkbook
    /\ UNCHANGED <<raw_trials, tfiles, tindex, tsuccess, tname, paths_used,
                   varsFn, varsFolder, varsProps, varsStats>>

\* the rows generate_publication_table prints and export_results writes to
\* the Publication_Table sheet: the sample, n, and the means, with the
\* standard deviations where n > 1 (the digits they are rounded to are not
\* modelled)
PublicationRows(summary) ==
    [k \in 1..Len(summary.rows) |->
        LET row == summary.rows[k]
        IN  [Polyol |-> row.Sample,
             n |-> row.n_trials,
             with_std |-> row.n_trials > 1,
             stats |-> row]]

\* the summary generate_publication_table prints: calculate_statistics runs
\* only if statistical_summary is None
SummaryForTable(summary, groups, order) ==
    IF summary.computed THEN summary
    ELSE [computed |-> TRUE, rows |-> SummaryRows(groups, order)]

\* generate_publication_table
GeneratePublicationTable ==
    /\ tpc \in {"ready", "returned"}
    /\ statistical_summary' =
           SummaryForTable(statistical_summary, sample_groups, group_order)
    /\ printed_table' =
           [printed |-> TRUE, rows |-> PublicationRows(statistical_summary')]
    /\ exported' = NoWorkbook
    /\ UNCHANGED <<sample_groups, group_order, raw_trials, tfiles, tindex, tsuccess,
                   tname, tpc, tresult, paths_used, varsFn, varsFolder, varsProps>>

\* individual_data of export_results: every trial record with its group
IndividualTrials(groups, order) ==
    [k \in 1..Len(order) |->
        [i \in 1..Len(groups[order[k]]) |->
            [sample_group |-> order[k], trial |-> groups[order[k]][i]]]]

\* export_results: the two summary sheets if there is a summary, the trials
\* sheet if there are trials.  A workbook left without any sheet is either
\* refused by the writer (IndexError) or written empty, by its version
ExportResults ==
    /\ tpc \in {"ready", "returned"}
    /\ LET workbook ==
               [written |-> TRUE,
                raised |-> FALSE,
                Publication_Table |->
                    IF statistical_summary.computed
                    THEN [present |-> TRUE, rows |-> PublicationRows(statistical_summary)]
                    ELSE NoSheet,
                Statistical_Summary |->
                    IF statistical_summary.computed
                    THEN [present |-> TRUE, rows |-> statistical_summary.rows]
                    ELSE NoSheet,
                Individual_Trials |->
                    IF group_order # <<>>
                    THEN [present |-> TRUE,
                          rows |-> IndividualTrials(sample_groups, group_order)]
                    ELSE NoSheet]
       IN  IF ~statistical_summary.computed /\ group_order = <<>>
           THEN exported' \in {workbook, [NoWorkbook EXCEPT !.raised = TRUE]}
           ELSE exported' = workbook
    /\ printed_table' = NoTable
    /\ UNCHANGED <<raw_trials, tfiles, tindex, tsuccess, tname, tpc, tresult,
                   paths_used, varsFn, varsFolder, varsProps, varsStats>>

NextTensile ==
    \/ ProcessFiles
    \/ ProcessFilesEmpty
    \/ LoadSingleFile
    \/ ProcessFilesReturn
    \/ CalculateStatistics
    \/ GeneratePublicationTable
    \/ ExportResults

(***************************************************************************)
(* Specifications                                                          *)
(***************************************************************************)
InitFn == FnInputs /\ FolderIdle /\ PropsIdle /\ StatsIdle /\ LoadIdle

SpecFn == InitFn /\ [][NextFn]_vars

InitFolder == FolderInit /\ FnIdle /\ PropsIdle /\ StatsIdle /\ LoadIdle

SpecFolder == InitFolder /\ [][NextFolder]_vars

InitProps == PropsInputs /\ FnIdle /\ FolderIdle /\ StatsIdle /\ LoadIdle

SpecProps == InitProps /\ [][NextProps]_vars

InitStats == StatsInputs /\ FnIdle /\ FolderIdle /\ PropsIdle /\ LoadReady

SpecStats == InitStats /\ [][NextStats]_vars

InitTensile == TensileInit /\ FnIdle /\ FolderIdle /\ PropsIdle

SpecTensile == InitTensile /\ [][NextTensile]_vars

\* a run of either analyzer
InitLoaders == InitFolder \/ InitTensile

NextLoaders == NextFolder \/ NextTensile

SpecLoaders == InitLoaders /\ [][NextLoaders]_vars

(***************************************************************************)
(* Properties of _calculate_properties (checked under SpecProps).  Strains *)
(* are taken in thousandths, where the inputs are whole numbers, and the   *)
(* least-squares slope and r^2 over a set S of rows are stated by the sums *)
(*   Sxx = k*sum(x^2) - sum(x)^2,  Sxy = k*sum(x*y) - sum(x)*sum(y),       *)
(*   Syy = k*sum(y^2) - sum(y)^2,  k = |S|:                                *)
(* slope = 1000 * Sxy / Sxx and r^2 = Sxy^2 / (Sxx * Syy).                 *)
(***************************************************************************)
Rows == 1..Len(data)

\* strain of row i in thousandths, and its stress
Xm(i) == (data[i].strain.n * 1000) \div data[i].strain.d

Ys(i) == data[i].stress.n

\* the sum of f over the rows S
RECURSIVE SumOver(_, _)
SumOver(S, f) ==
    IF S = {} THEN 0
    ELSE LET i == CHOOSE j \in S : TRUE
         IN  f[i] + SumOver(S \ {i}, f)

SumX(S) == SumOver(S, [i \in Rows |-> Xm(i)])

SumY(S) == SumOver(S, [i \in Rows |-> Ys(i)])

Sxx(S) == Cardinality(S) * SumOver(S, [i \in Rows |-> Xm(i) * Xm(i)]) - SumX(S) * SumX(S)

Sxy(S) == Cardinality(S) * SumOver(S, [i \in Rows |-> Xm(i) * Ys(i)]) - SumX(S) * SumY(S)

Syy(S) == Cardinality(S) * SumOver(S, [i \in Rows |-> Ys(i) * Ys(i)]) - SumY(S) * SumY(S)

\* the rows whose strain lies in [0.001, 0.005]
WindowRows == {i \in Rows : Xm(i) >= 1 /\ Xm(i) <= 5}

\* properties holds the least-squares fit over the rows S
FittedOver(S) ==
    LET sxx == Sxx(S)
        sxy == Sxy(S)
        syy == Syy(S)
    IN  /\ IsQuotient(properties.Youngs_Modulus_MPa, 1000 * sxy, sxx)
        /\ IF syy = 0
           THEN properties.R_squared = FInt(0)
           ELSE IsQuotient(properties.R_squared, sxy * sxy, sxx * syy)

\* the fit over S fails: all its strains are one value
Degenerate(S) == Sxx(S) = 0

\* the rows the claim has the fit taken over
ClaimedRows ==
    IF Cardinality(WindowRows) >= 5 THEN WindowRows
    ELSE IF Len(data) >= 5 THEN Rows
    ELSE {}

\* C5: with at least 5 rows in the window the modulus and R^2 are the fit
\* over those rows only; otherwise, with at least 5 rows in the trial, the
\* fit over all rows; otherwise both are exactly 0.  (Where all strains of
\* the chosen rows are one value, linregress raises and nothing is set.)
C5_ModulusCases ==
    /\ ppc \in {"fitted", "done", "IndexError"} =>
           IF ClaimedRows = {}
           THEN /\ properties.Youngs_Modulus_MPa = FInt(0)
                /\ properties.R_squared = FInt(0)
           ELSE ~Degenerate(ClaimedRows) /\ FittedOver(ClaimedRows)
    /\ ppc = "ValueError" => (ClaimedRows # {} /\ Degenerate(ClaimedRows))

\* 4 rows in the window and 6 in the trial: the whole-trial slope, which is
\* not the slope over the window
C5_Witness ==
    /\ ppc = "done"
    /\ Cardinality(WindowRows) = 4
    /\ Len(data) = 6
    /\ FittedOver(Rows)
    /\ ~Degenerate(WindowRows)
    /\ ~IsQuotient(properties.Youngs_Modulus_MPa, 1000 * Sxy(WindowRows), Sxx(WindowRows))

\* twice the trapezoid sum of the rows from i on, strains in thousandths
RECURSIVE TwiceAreaFrom(_)
TwiceAreaFrom(i) ==
    IF i >= Len(data) THEN 0
    ELSE (Ys(i) + Ys(i + 1)) * (Xm(i + 1) - Xm(i)) + TwiceAreaFrom(i + 1)

\* the slopes k (stress = k * strain) the rows of the trial allow
LinearSlopes ==
    LET candidates == {0, 1} \cup {(Ys(i) * 1000) \div Xm(i) : i \in {j \in Rows : Xm(j) # 0}}
    IN  {k \in candidates : \A i \in Rows : Ys(i) * 1000 = k * Xm(i)}

\* C11: the toughness is the trapezoid sum of stress over strain over the
\* consecutive pairs of rows in the order of the trial; for a trial with
\* stress = k * strain whose strain starts at 0 and ends at s_max it equals
\* k * s_max^2 / 2.
C11_Toughness ==
    ppc = "done" =>
        /\ IsQuotient(properties.Toughness_MJ_per_m3, TwiceAreaFrom(1), 2000)
        /\ \A k \in LinearSlopes :
               Xm(1) = 0 =>
                   IsQuotient(properties.Toughness_MJ_per_m3,
                              k * Xm(Len(data)) * Xm(Len(data)), 2000000)

\* a linear trial (k = 600) whose strain goes up to 0.005, back down to 0 and
\* up again: its toughness is 600 * 0.005^2 / 2 = 3/400
C11_Witness ==
    /\ ppc = "done"
    /\ 600 \in LinearSlopes
    /\ Len(data) >= 4
    /\ Xm(1) = 0 /\ Xm(2) = 5 /\ Xm(3) = 0 /\ Xm(Len(data)) = 5
    /\ properties.Toughness_MJ_per_m3 = Norm(3, 400)

\* the largest of f over the rows S, S not empty
MaxOver(S, f) == CHOOSE v \in {f[i] : i \in S} : \A j \in S : f[j] <= v

\* C16: UTS is the largest stress, Max_Load_N the largest load and
\* Max_Displacement_mm the largest crosshead of the whole trial, and
\* Strain_at_Break_percent is 100 times the strain of the last row.
C16_ScalarProperties ==
    ppc = "done" =>
        /\ IsQuotient(properties.UTS_MPa, MaxOver(Rows, [i \in Rows |-> Ys(i)]), 1)
        /\ IsQuotient(properties.Max_Load_N,
               MaxOver(Rows, [i \in Rows |-> Ys(i)]) * DefaultArea, 1)
        /\ IsQuotient(properties.Max_Displacement_mm,
               MaxOver(Rows, [i \in Rows |-> Xm(i)]) * DefaultGaugeLength, 1000)
        /\ IsQuotient(properties.Strain_at_Break_percent, Xm(Len(data)), 10)

\* a trial whose strain falls at the end and whose largest stress lies
\* outside the window of the fit
C16_Witness ==
    /\ ppc = "done"
    /\ Len(data) >= 3
    /\ Xm(Len(data)) = 0
    /\ \E i \in Rows : Xm(i) = 5 /\ Ys(i) = 3
    /\ properties.Strain_at_Break_percent = FInt(0)
    /\ properties.UTS_MPa = FInt(3)

(***************************************************************************)
(* Properties of the two batch loaders (checked under SpecLoaders, whose   *)
(* runs are runs of load_tga_folder or of the tensile analyzer).           *)
(***************************************************************************)
\* the step takes load_tga_folder through a file that fails to load
TgaLoadFails == next_file' = next_file + 1 /\ success_count' = success_count

\* the step takes _process_files through a file that fails to load
TensileLoadFails == tindex' = tindex + 1 /\ tsuccess' = tsuccess

\* file i of the running _process_files call is stored in raw_trials
TrialStored(i) ==
    /\ <<tname, i>> \in DOMAIN raw_trials
    /\ raw_trials[<<tname, i>>].filepath = tfiles[i]

\* what a step of a batch loader may do
FailedLoadStep ==
    /\ TgaLoadFails => (raw_data' = raw_data /\ tga_results' = tga_results)
    /\ TensileLoadFails => (raw_trials' = raw_trials /\ sample_groups' = sample_groups)
    /\ (folder_pc = "loop" /\ folder_pc' = "returned") =>
           /\ next_file = Len(files) + 1
           /\ folder_result' = (raw_data # <<>>)
    /\ (tpc = "loop" /\ tpc' = "returned") =>
           /\ tindex = Len(tfiles)
           /\ tresult' = (\E i \in 1..Len(tfiles) : TrialStored(i))
    /\ (tpc # "loop" /\ tfiles' = <<>> /\ tpc' = "returned") => tresult' = FALSE

\* C12: in both pipelines a file whose load fails leaves raw_data and
\* tga_results, raw_trials and sample_groups as they were; the loader returns
\* only after it has been through every file, and it returns True iff at
\* least one file of the batch was loaded.
C12_FailedLoads == [][FailedLoadStep]_vars

\* a batch of two files that returned True after its first file failed and
\* its second file loaded, in the tensile or in the TGA analyzer
C12_Witness ==
    \/ /\ tpc = "returned"
       /\ Len(tfiles) = 2
       /\ tresult = TRUE
       /\ ~TrialStored(1)
       /\ TrialStored(2)
       /\ tsuccess = 1
    \/ /\ folder_pc = "returned"
       /\ Len(files) = 2
       /\ folder_result = TRUE
       /\ success_count = 1
       /\ DOMAIN raw_data = {extract_sample_name(files[2])}
       /\ raw_data[extract_sample_name(files[2])].filepath = files[2]

(***************************************************************************)
(* Properties of load_tga_folder over its files (checked under SpecFolder).*)
(***************************************************************************)
\* C14 as stated: once a sample name has a record, no later step replaces or
\* removes it, in tga_results or in raw_data.
C14_AppendOnly ==
    [][/\ \A name \in DOMAIN tga_results :
             name \in DOMAIN tga_results' /\ tga_results'[name] = tga_results[name]
       /\ \A name \in DOMAIN raw_data :
             name \in DOMAIN raw_data' /\ raw_data'[name] = raw_data[name]]_vars

\* the step loads the file at next_file, whose sample name is name
LoadsSample(name) ==
    /\ folder_pc = "loop"
    /\ next_file <= Len(files)
    /\ name = extract_sample_name(files[next_file])
    /\ success_count' = success_count + 1
    /\ raw_data'[name].filepath = files[next_file]

\* what a step may do to the two mappings
KeysOnlyGrowStep ==
    /\ DOMAIN raw_data' = DOMAIN tga_results'
    /\ \A name \in DOMAIN tga_results :
           /\ name \in DOMAIN tga_results'
           /\ (tga_results'[name] # tga_results[name]) => LoadsSample(name)
    /\ \A name \in DOMAIN raw_data :
           /\ name \in DOMAIN raw_data'
           /\ (raw_data'[name] # raw_data[name]) => LoadsSample(name)
    /\ \A name \in DOMAIN raw_data' \ DOMAIN raw_data : LoadsSample(name)

\* C14 (amended): the two mappings never lose a sample name and hold the same
\* names; the record of a name changes only when a file that
\* _extract_sample_name maps to that name is loaded, and that load replaces
\* the record with the one of the later file.
C14_KeysOnlyGrow == [][KeysOnlyGrowStep]_vars

\* two files of one sample name were both loaded: one record is left, of the
\* second file, whose curve is not the one of the first
C14_Witness ==
    /\ folder_pc = "returned"
    /\ Len(files) = 2
    /\ success_count = 2
    /\ extract_sample_name(files[1]) = extract_sample_name(files[2])
    /\ DOMAIN tga_results = {extract_sample_name(files[1])}
    /\ raw_data[extract_sample_name(files[1])].filepath = files[2]

(***************************************************************************)
(* Properties of the tensile analyzer over its calls (checked under        *)
(* SpecTensile).                                                           *)
(***************************************************************************)
\* the step is a load that succeeds
TensileLoadSucceeds == tindex' = tindex + 1 /\ tsuccess' = tsuccess + 1

\* the list of a sample, empty if the sample has none
GroupOf(groups, name) == IF name \in DOMAIN groups THEN groups[name] ELSE <<>>

\* sequence a is the beginning of sequence b
IsPrefix(a, b) == Len(a) <= Len(b) /\ SubSeq(b, 1, Len(a)) = a

\* what a step may do to sample_groups
AppendOnlyStep ==
    /\ \A name \in DOMAIN sample_groups :
           /\ name \in DOMAIN sample_groups'
           /\ IsPrefix(sample_groups[name], sample_groups'[name])
    /\ IsPrefix(group_order, group_order')
    /\ IF TensileLoadSucceeds
       THEN /\ DOMAIN sample_groups' = DOMAIN sample_groups \cup {tname}
            /\ \A name \in DOMAIN sample_groups \ {tname} :
                   sample_groups'[name] = sample_groups[name]
            /\ Len(sample_groups'[tname]) = Len(GroupOf(sample_groups, tname)) + 1
            /\ LET record == sample_groups'[tname][Len(sample_groups'[tname])]
               IN  /\ record.trial_name = tindex + 1
                   /\ record.full_name = <<tname, tindex + 1>>
                   /\ record.UTS_MPa = raw_trials'[record.full_name].properties.UTS_MPa
       ELSE sample_groups' = sample_groups

\* C13: every successful load appends exactly one record to the end of the
\* list of its sample, and no step of any operation removes, reorders or
\* changes a record: each list is in the order its trials were loaded.
C13_AppendOnly == [][AppendOnlyStep]_vars

\* a sample with two trials from two calls, both "Run 1", with the statistics
\* computed in between, when it had one trial
C13_Witness ==
    /\ statistical_summary.computed
    /\ \E k \in 1..Len(statistical_summary.rows) :
           LET row == statistical_summary.rows[k]
           IN  /\ row.n_trials = 1
               /\ Len(sample_groups[row.Sample]) = 2
               /\ sample_groups[row.Sample][1].trial_name = 1
               /\ sample_groups[row.Sample][2].trial_name = 1

\* the rows have one record per current sample group, with its current
\* number of trials
RowsAreCurrent(rows) ==
    /\ Len(rows) = Len(group_order)
    /\ \A k \in 1..Len(rows) :
           /\ rows[k].Polyol = group_order[k]
           /\ rows[k].n = Len(sample_groups[group_order[k]])

\* C15: the summary generate_publication_table prints, and the one
\* export_results writes, has one record per current sample group with
\* n_trials the current number of trials of the group, after any sequence of
\* loads and calls.
C15_SummaryIsCurrent ==
    /\ printed_table.printed => RowsAreCurrent(printed_table.rows)
    /\ exported.Publication_Table.present =>
           RowsAreCurrent(exported.Publication_Table.rows)

\* every record of every group, as the pair of its sample and its place
AllRecords ==
    UNION {{<<name, i>> : i \in 1..Len(sample_groups[name])} :
               name \in DOMAIN sample_groups}

\* C17: the records of sample_groups and the entries of raw_trials are in
\* one-to-one correspondence: every full_name is a key of raw_trials, no two
\* records share a full_name, and there are as many records as entries.
C17_OneToOne ==
    /\ \A r \in AllRecords :
           sample_groups[r[1]][r[2]].full_name \in DOMAIN raw_trials
    /\ \A r, q \in AllRecords :
           r # q => sample_groups[r[1]][r[2]].full_name #
                        sample_groups[q[1]][q[2]].full_name
    /\ Cardinality(AllRecords) = Cardinality(DOMAIN raw_trials)

\* the rows of a stored trial whose strain lies in [0.001, 0.005]
StoredWindowRows(trial) ==
    {i \in 1..Len(trial.data) :
        /\ trial.data[i].strain.n * 1000 >= StrainLowMilli * trial.data[i].strain.d
        /\ trial.data[i].strain.n * 1000 <= StrainHighMilli * trial.data[i].strain.d}

\* what a step that stores a trial stores
TenRowsStep ==
    TensileLoadSucceeds =>
        LET record == sample_groups'[tname][Len(sample_groups'[tname])]
            trial == raw_trials'[record.full_name]
        IN  /\ Len(trial.data) >= 10
            /\ Cardinality(StoredWindowRows(trial)) >= 5 \/ Len(trial.data) >= 5
            /\ record.Youngs_Modulus_MPa = trial.properties.Youngs_Modulus_MPa

\* C18: every trial that reaches sample_groups has at least 10 data rows, so
\* its modulus is a fit over the window or over the whole trial, never the 0
\* of the branch for fewer than 5 rows.
C18_TenRows == [][TenRowsStep]_vars

\* a batch in which a file of 9 or fewer rows (or another bad file) was
\* skipped and a file of 10 rows with 2 rows in the window was stored, its
\* modulus 500 from the fit over the whole trial
C18_Witness ==
    /\ tindex = 2
    /\ tsuccess = 1
    /\ \E key \in DOMAIN raw_trials :
           /\ Len(raw_trials[key].data) = 10
           /\ Cardinality(StoredWindowRows(raw_trials[key])) = 2
           /\ raw_trials[key].properties.Youngs_Modulus_MPa = FInt(500)
           /\ \E i \in 1..Len(sample_groups[key[1]]) :
                  /\ sample_groups[key[1]][i].full_name = key
                  /\ sample_groups[key[1]][i].Youngs_Modulus_MPa = FInt(500)

(***************************************************************************)
(* Properties of calculate_statistics (checked under SpecStats, whose      *)
(* property values are whole numbers).  With total = sum(x) and            *)
(* dev2 = sum((n*x - total)^2): mean = total/n,                            *)
(* std^2 = dev2 / (n^2 * (n-1)) and cv^2 = 10000 * dev2 / ((n-1)*total^2). *)
(***************************************************************************)
RECURSIVE SumInts(_)
SumInts(a) == IF a = <<>> THEN 0 ELSE Head(a) + SumInts(Tail(a))

StatsAsClaimed(values, mean, std, cv) ==
    LET n == Len(values)
        total == SumInts([i \in 1..n |-> values[i].n])
        dev2 == SumInts([i \in 1..n |->
                    (n * values[i].n - total) * (n * values[i].n - total)])
    IN  /\ n >= 1
        /\ IsQuotient(mean, total, n)
        /\ IsFinite(std.sq)
        /\ IsFinite(cv.sq)
        /\ n = 1 => (std = RootZero /\ cv = RootZero)
        /\ total = 0 => cv = RootZero
        /\ n > 1 =>
               /\ std.s = (IF dev2 = 0 THEN 0 ELSE 1)
               /\ IsQuotient(std.sq, dev2, n * n * (n - 1))
        /\ (n > 1 /\ total # 0) =>
               /\ cv.s = std.s * Sign(total)
               /\ IsQuotient(cv.sq, 10000 * dev2, (n - 1) * total * total)

\* C6: for every group and every tracked property, std = 0 and cv = 0 for a
\* single trial, cv = 0 for a mean of exactly 0, otherwise std is the sample
\* standard deviation (ddof = 1) and cv = std / mean * 100; no value comes
\* from a division by zero.
C6_Statistics ==
    statistical_summary.computed =>
        \A k \in 1..Len(statistical_summary.rows) :
            LET row == statistical_summary.rows[k]
                trials == sample_groups[row.Sample]
            IN  /\ StatsAsClaimed(ModulusValues(trials), row.Youngs_Modulus_MPa_mean,
                       row.Youngs_Modulus_MPa_std, row.Youngs_Modulus_MPa_cv)
                /\ StatsAsClaimed(UTSValues(trials), row.UTS_MPa_mean,
                       row.UTS_MPa_std, row.UTS_MPa_cv)
                /\ StatsAsClaimed(BreakValues(trials), row.Strain_at_Break_percent_mean,
                       row.Strain_at_Break_percent_std, row.Strain_at_Break_percent_cv)
                /\ StatsAsClaimed(ToughnessValues(trials), row.Toughness_MJ_per_m3_mean,
                       row.Toughness_MJ_per_m3_std, row.Toughness_MJ_per_m3_cv)

\* a single trial of mean 3 beside a group whose toughness has mean 0 and a
\* standard deviation that is not 0
C6_Witness ==
    /\ statistical_summary.computed
    /\ \E k, m \in 1..Len(statistical_summary.rows) :
           /\ statistical_summary.rows[k].n_trials = 1
           /\ statistical_summary.rows[k].UTS_MPa_mean = FInt(3)
           /\ statistical_summary.rows[k].UTS_MPa_cv = RootZero
           /\ statistical_summary.rows[m].n_trials > 1
           /\ statistical_summary.rows[m].Toughness_MJ_per_m3_mean = FInt(0)
           /\ statistical_summary.rows[m].Toughness_MJ_per_m3_std.s = 1
           /\ statistical_summary.rows[m].Toughness_MJ_per_m3_cv = RootZero

\* C7: the stored weight_percent of every loaded sample starts at exactly
\* 100.0.
C7_StartsAtHundred ==
    \A name \in DOMAIN raw_data : At(raw_data[name].weight_percent, 0) = FInt(100)

(***************************************************************************)
(* Properties of the TGA functions (checked under SpecFn, whose inputs     *)
(* are integer valued).  They are stated over the integers, with a         *)
(* quotient q = num/den written q.n * den = num * q.d.                     *)
(***************************************************************************)
\* the inputs and outputs at source index i
Tn(i) == At(temperature, i).n

Wn(i) == At(weight_percent, i).n

Dv(i) == At(deriv_weight, i)

NumSamples == Len(weight_percent)

Indices == 0..(NumSamples - 1)

\* the difference quotient over the indices (lo, hi), or 0 when T[hi] <= T[lo]
GuardedQuotient(q, lo, hi) ==
    IF Tn(hi) > Tn(lo)
    THEN IsQuotient(q, Wn(hi) - Wn(lo), Tn(hi) - Tn(lo))
    ELSE q = FInt(0)

\* C1: the derivative has the length n of its inputs; an interior D[i] is
\* (W[i+1]-W[i-1])/(T[i+1]-T[i-1]) if T[i+1] > T[i-1] and 0 otherwise; D[0]
\* and D[n-1] are the one-sided quotients under the same guard; for n <= 1
\* the derivative is all zeros.
C1_DerivativeFormula ==
    pc \in {"derived", "analyzed"} =>
        /\ Len(deriv_weight) = NumSamples
        /\ \A i \in 1..(NumSamples - 2) : GuardedQuotient(Dv(i), i - 1, i + 1)
        /\ NumSamples >= 2 =>
               /\ GuardedQuotient(Dv(0), 0, 1)
               /\ GuardedQuotient(Dv(NumSamples - 1), NumSamples - 2, NumSamples - 1)
        /\ NumSamples <= 1 => \A i \in Indices : Dv(i) = FInt(0)

\* an interior central difference that is not 0 beside a start point left at 0
\* by its non-positive span
C1_Witness ==
    /\ pc = "derived"
    /\ NumSamples >= 3
    /\ Tn(2) > Tn(0)
    /\ Dv(1) # FInt(0)
    /\ Tn(1) <= Tn(0)
    /\ Wn(1) # Wn(0)
    /\ Dv(0) = FInt(0)

\* the first index whose weight percent is <= level, as a predicate on i
IsFirstBelow(i, level) ==
    /\ i \in Indices
    /\ Wn(i) <= level
    /\ \A j \in 0..(i - 1) : Wn(j) > level

CrossingIs(value, level) ==
    /\ (\E i \in Indices : Wn(i) <= level) =>
           \E i \in Indices : IsFirstBelow(i, level) /\ value = At(temperature, i)
    /\ IsNaN(value) <=> (\A i \in Indices : Wn(i) > level)

\* C2: T5 is T[i] for the smallest i with W[i] <= 95.0 and T50 is T[j] for the
\* smallest j with W[j] <= 50.0; each is NaN exactly when no index satisfies
\* its threshold.
C2_FirstCrossings ==
    pc = "analyzed" =>
        /\ CrossingIs(results.T5, 95)
        /\ CrossingIs(results.T50, 50)

\* T5 read at an index that is exactly at 95 and is not the first one, T50 absent
C2_Witness ==
    /\ pc = "analyzed"
    /\ IsFirstBelow(1, 95)
    /\ Wn(1) = 95
    /\ results.T5 = At(temperature, 1)
    /\ At(temperature, 1) # At(temperature, 0)
    /\ IsNaN(results.T50)

InWindow(i) == i \in Indices /\ Tn(i) >= 200 /\ Tn(i) <= 600

\* C3: Tmax is T[i] for the first index i of the window [200, 600] whose
\* derivative is minimal among the indices of the window, and NaN exactly
\* when the window holds no index.
C3_TmaxInWindow ==
    pc = "analyzed" =>
        /\ (\E i \in Indices : InWindow(i)) =>
               \E i \in Indices :
                   /\ InWindow(i)
                   /\ \A j \in Indices : InWindow(j) => ~RatLess(Dv(j), Dv(i))
                   /\ \A j \in 0..(i - 1) : InWindow(j) => RatLess(Dv(i), Dv(j))
                   /\ results.Tmax = At(temperature, i)
        /\ IsNaN(results.Tmax) <=> (\A i \in Indices : ~InWindow(i))

\* an index outside the window has a derivative below every one inside it
C3_Witness ==
    /\ pc = "analyzed"
    /\ ~IsNaN(results.Tmax)
    /\ \E k \in Indices :
           /\ ~InWindow(k)
           /\ \A j \in Indices : InWindow(j) => RatLess(Dv(k), Dv(j))
           /\ At(temperature, k) # results.Tmax

\* C4: Residue_600C is W at the smallest index with T >= 600 when there is
\* one, the last element of W when every T is below 600, and NaN for empty
\* input.
C4_Residue ==
    pc = "analyzed" =>
        /\ NumSamples = 0 => IsNaN(results.Residue_600C)
        /\ \A i \in Indices :
               (Tn(i) >= 600 /\ \A j \in 0..(i - 1) : Tn(j) < 600) =>
                   results.Residue_600C = At(weight_percent, i)
        /\ (NumSamples > 0 /\ \A i \in Indices : Tn(i) < 600) =>
               results.Residue_600C = At(weight_percent, NumSamples - 1)

\* a sweep that reaches exactly 600 first and falls back below it afterwards
C4_Witness ==
    /\ pc = "analyzed"
    /\ NumSamples >= 2
    /\ Tn(0) = 600
    /\ Tn(NumSamples - 1) < 600
    /\ results.Residue_600C = At(weight_percent, 0)
    /\ At(weight_percent, 0) # At(weight_percent, NumSamples - 1)

WeightNonIncreasing == \A i \in 1..(NumSamples - 1) : Wn(i) <= Wn(i - 1)

TempNonDecreasing == \A i \in 1..(NumSamples - 1) : Tn(i) >= Tn(i - 1)

BothDefined == ~IsNaN(results.T5) /\ ~IsNaN(results.T50)

\* C8 as stated: for W non-increasing and T in any order, T50 >= T5 whenever
\* both are defined.
C8_AnyOrder ==
    (pc = "analyzed" /\ WeightNonIncreasing /\ BothDefined) =>
        ~RatLess(results.T50, results.T5)

\* C8 amended: for W non-increasing and T non-decreasing, T50 >= T5 whenever
\* both are defined.
C8_Monotonic ==
    (pc = "analyzed" /\ WeightNonIncreasing /\ TempNonDecreasing /\ BothDefined) =>
        ~RatLess(results.T50, results.T5)

\* both crossings happen, at different temperatures of a rising sweep
C8_Witness ==
    /\ pc = "analyzed"
    /\ WeightNonIncreasing
    /\ TempNonDecreasing
    /\ BothDefined
    /\ RatLess(results.T5, results.T50)

\* C9 as stated: D[i] = 0 wherever T[i] <= T[i-1] or T[i+1] <= T[i].
C9_AdjacentPair ==
    pc \in {"derived", "analyzed"} =>
        \A i \in Indices :
            (\/ i >= 1 /\ Tn(i) <= Tn(i - 1)
             \/ i <= NumSamples - 2 /\ Tn(i + 1) <= Tn(i)) =>
                Dv(i) = FInt(0)

\* the pair of indices whose span the derivative at i divides by
SpanLo(i) == IF i = 0 THEN 0 ELSE i - 1

SpanHi(i) == IF i = NumSamples - 1 THEN i ELSE i + 1

\* C9 amended: D[i] = 0 wherever the span the derivative at i divides by is
\* not positive: T[i+1] <= T[i-1] at an interior index, T[1] <= T[0] at the
\* first index, T[n-1] <= T[n-2] at the last.
C9_SpanNotPositive ==
    pc \in {"derived", "analyzed"} =>
        \A i \in Indices :
            (NumSamples >= 2 /\ Tn(SpanHi(i)) <= Tn(SpanLo(i))) => Dv(i) = FInt(0)

\* an interior index over a falling span whose weights differ
C9_Witness ==
    /\ pc = "derived"
    /\ NumSamples >= 3
    /\ Tn(2) < Tn(0)
    /\ Wn(2) # Wn(0)
    /\ Dv(1) = FInt(0)

InScenario == temperature = ScenarioT /\ weight_percent = ScenarioW

\* the scenario's derivative: -0.28 at index 2 is the most negative
ScenarioDerivative ==
    /\ IsQuotient(Dv(2), -28, 100)
    /\ \A i \in Indices : i # 2 => RatLess(Dv(2), Dv(i))

\* C10 as stated: for T = [100,200,300,400,500,600] and
\* W = [100,96,70,40,20,15] the events are T5 = 200, T50 = 400, Tmax at the
\* most negative derivative of the window and Residue_600C = 15.
C10_ScenarioAsStated ==
    (pc = "analyzed" /\ InScenario) =>
        /\ results.T5 = FInt(200)
        /\ results.T50 = FInt(400)
        /\ results.Tmax = FInt(300)
        /\ results.Residue_600C = FInt(15)
        /\ ScenarioDerivative

\* C10 amended: in that scenario T5 = 300, since W[1] = 96 is above 95 and
\* the first W <= 95 is W[2] = 70; T50 = 400, Tmax = 300 and
\* Residue_600C = 15.
C10_Scenario ==
    (pc = "analyzed" /\ InScenario) =>
        /\ results.T5 = FInt(300)
        /\ results.T50 = FInt(400)
        /\ results.Tmax = FInt(300)
        /\ results.Residue_600C = FInt(15)
        /\ ScenarioDerivative

C10_Witness == pc = "analyzed" /\ InScenario /\ results.Tmax = At(temperature, 2)

====
